---- MODULE Spec2Model ----
(***************************************************************************)
(* SETLyze: the record-grouping and spot-distance analysis engine.         *)
(*                                                                         *)
(* The components are modelled each with its own specification:            *)
(*   SpecSignificance  the significance tests on one data group            *)
(*                     (Wilcoxon, Chi-squared, repeated Wilcoxon);         *)
(*   SpecDistances     observed and expected spot distances;               *)
(*   SpecGrouping      grouping of records by number of positive spots;    *)
(*   SpecRatios        grouping of plate records by ratios groups;         *)
(*   SpecGroupers      either of the two groupings;                        *)
(*   SpecBatch         batch mode: one analysis per species, in a pool of  *)
(*                     concurrent processes, and the summary report;       *)
(*   SpecBatchFair     the same with fairly scheduled processes;           *)
(*   SpecEnumeration   the frequencies of the spot distances of a plate;   *)
(*   SpecPreference    observed and expected positive spots per plate area;*)
(*   SpecLauncher      the window to select an analysis (SETLyze 0.1).     *)
(*                                                                         *)
(* Number representation.  P-values and the alpha level are rationals      *)
(* with denominator PScale (alpha_level = 1 stands for 1/PScale).  A spot  *)
(* distance sqrt(dr^2 + dc^2) is represented by its square dr^2 + dc^2,    *)
(* an injective encoding of the distances of the plate (1 -> 1, 1.41 -> 2, *)
(* 2 -> 4, 2.24 -> 5, ...).                                                *)
(***************************************************************************)
EXTENDS Integers, Sequences, FiniteSets, Bags, TLC

VARIABLES
    \* ---- significance engine ----
    pc,             \* position of the analysis of one data group
    analysis,       \* "spot_preference" | "attraction_intra" | "attraction_inter"
    alpha_level,    \* alpha level, in units of 1/PScale
    n_repeats,      \* number of repeats for the repeated tests
    result,         \* the row of the last non-repeated test
    repeat_i,       \* repeats performed so far
    stats,          \* counters of the repeated test
    overall,        \* significance of the repeated test as a whole
    equal_means,    \* history: a significant repeat had equal means
    \* ---- spot distances ----
    dpc,            \* position of the distance calculation
    dmode,          \* "intra" | "inter"
    plate_a,        \* positive spots of species A on the current plate record
    plate_b,        \* positive spots of species B on the current plate record
    in_a,           \* is the current plate in species selection A
    in_b,           \* is the current plate in species selection B
    n_spots_a,      \* plate_spot_totals.n_spots_a of the current plate
    n_spots_b,      \* plate_spot_totals.n_spots_b of the current plate
    random_a,       \* the random copy of the spots of species A
    random_b,       \* the random copy of the spots of species B
    plate_observed, \* bag of observed distances of the current plate
    plate_expected, \* bag of expected distances of the current plate
    n_observed,     \* length of the list of observed distances
    n_expected,     \* length of the list of expected distances
    n_plates,       \* plate records processed so far
    \* ---- record grouping ----
    gpc,            \* position of the grouping
    records,        \* number of positive spots of each record of the selection
    group_i,        \* position in the sequence of groups to test
    groups,         \* group number -> the records of the group
    rows,           \* the rows of results, one per group tested
    \* ---- record grouping by ratios groups ----
    rpc,            \* position of the grouping
    ratios,         \* (n_spots_a, n_spots_b) of each matching plate record
    ratios_group_i, \* position in the sequence of ratios groups to test
    ratios_groups,  \* ratios group number -> the plate records of the group
    ratios_rows,    \* the rows of results, one per ratios group tested
    \* ---- batch mode ----
    bpc,            \* "start" | "running" | "done" | "cancelled"
    n_units,        \* number of species (or species pairs) submitted
    unit_input,     \* unit -> what the data of its species lead to
    unit_state,     \* unit -> "queued" | "running" | "done" | "abandoned"
    processes,      \* number of concurrent processes of the pool
    cpus,           \* number of CPUs of the computer
    collected,      \* the results received so far, in order of completion
    cancelled,      \* has the cancellation signal been raised
    n_at_cancel,    \* history: results received when the signal was raised
    results,        \* the batch result handed to the caller
    summary,        \* the rows displayed by the summary report
    \* ---- distribution of the spot distances on a full plate ----
    epc,            \* position of the enumeration
    enum_i,         \* pairs of spots done so far
    freq_intra,     \* bag of distances between two different spots
    freq_inter,     \* bag of distances between a spot of A and a spot of B
    \* ---- spot preference ----
    ppc,            \* position of the spot preference analysis
    pref_plate,     \* positive spots of the species on the plate record
    pref_random,    \* positive spots of the virtual plate
    area_observed,  \* plate_area_totals_observed of the plate
    area_expected,  \* plate_area_totals_expected of the plate
    pref_repeat,    \* times the expected values were calculated
    pref_repeats,   \* number of repeats to perform
    \* ---- the window to select an analysis ----
    lpc,            \* position of the application
    selected,       \* the analysis of the active radio button
    db_file,        \* the local database file on the user's computer
    has_local_db,   \* configuration value 'has-local-db'
    handler3,       \* is 'progress-dialog-closed' connected to on_continue
    window_shown,   \* is the window to select an analysis shown
    n_threads,      \* MakeLocalDB threads that run
    n_dialogs,      \* progress dialogs "Loading SETL Data" that are open
    n_begun,        \* calls of a Begin()
    begun_analysis, \* the analysis of the last Begin()
    pending_beginning, \* 'beginning-analysis' signals not yet received
    n_started,      \* 'beginning-analysis' signals received
    n_closed,       \* 'analysis-closed' signals received
    n_signals,      \* 'progress-dialog-closed' signals emitted
    n_signal_continue, \* calls of on_continue made by that signal
    last_path,      \* what the last on_continue ended with
    last_saved      \* has the last on_continue taken the saved data

sigVars == <<pc, analysis, alpha_level, n_repeats, result, repeat_i, stats, overall,
            equal_means>>
distVars == <<dpc, dmode, plate_a, plate_b, in_a, in_b, n_spots_a, n_spots_b,
              random_a, random_b, plate_observed, plate_expected,
              n_observed, n_expected, n_plates>>
grpVars == <<gpc, records, group_i, groups, rows>>
ratVars == <<rpc, ratios, ratios_group_i, ratios_groups, ratios_rows>>
batchVars == <<bpc, n_units, unit_input, unit_state, processes, cpus, collected,
               cancelled, n_at_cancel, results, summary>>
enumVars == <<epc, enum_i, freq_intra, freq_inter>>
prefVars == <<ppc, pref_plate, pref_random, area_observed, area_expected,
              pref_repeat, pref_repeats>>
launchVars == <<lpc, selected, db_file, has_local_db, handler3, window_shown,
                n_threads, n_dialogs, n_begun, begun_analysis,
                pending_beginning, n_started, n_closed, n_signals,
                n_signal_continue, last_path, last_saved>>
vars == <<sigVars, distVars, grpVars, ratVars, batchVars, enumVars, prefVars,
          launchVars>>

----------------------------------------------------------------------------
(* Bounds of the model *)

PScale == 20        \* denominator of p-values and of the alpha level
MaxMean == 2        \* observed and expected means range over 0..MaxMean
MaxRepeats == 3     \* repeats range over 1..MaxRepeats, plus the default
MaxSpot == 6        \* plate records have their positive spots among 0..MaxSpot
MaxPositive == 3    \* positive spots of one species on one plate record
MaxPlates == 2      \* plate records of one distance calculation
MaxRecords == 3     \* records of the selection that is grouped
MaxRatios == 2      \* matching plate records grouped by ratios groups
MaxUnits == 3       \* species (or species pairs) of one batch run
MaxCPUs == 2        \* CPUs of the computer that runs the batch
MaxThreads == 2     \* MakeLocalDB threads started by the window
MaxBegun == 3       \* analyses begun from the window
MaxSignals == 3     \* 'progress-dialog-closed' signals emitted

(* Program constants *)

DefaultRepeats == 20
MinExpectedFrequency == 5
IntraTotal == 300
GridSide == 5
MaxPositiveSpots == 25
DefaultProcessesPercent == 90
InterTotal == 625

----------------------------------------------------------------------------
(* Significance engine *)

Analyses == {"spot_preference", "attraction_intra", "attraction_inter"}

\* Alpha levels the preferences are set to: 1/PScale (0.05, the default) and 2/PScale.
AlphaChoices == {1, 2}

RepeatChoices == (1..MaxRepeats) \cup {DefaultRepeats}

\* P-values a test returns: the extremes and the values around the alpha level.
PValues(alpha) == {0, alpha - 1, alpha, alpha + 1, PScale} \cap (0..PScale)

Means == 0..MaxMean

NoResult == [test |-> "none", n |-> 0, p_value |-> 0, mean_observed |-> 0,
             mean_expected |-> 0, remarks |-> "none"]

NoStats == [n_significant |-> 0, n_non_significant |-> 0,
            n_preference |-> 0, n_rejection |-> 0,
            n_attraction |-> 0, n_repulsion |-> 0]

\* Variant: significant only strictly below the alpha level.
IsSignificantLt(p, alpha) == p < alpha

\* "The P-value is considered significant if the P-value is equal or less
\* than the alpha level."
IsSignificant(p, alpha) == p <= alpha

\* Variant: the two comparisons of the means exchanged.
DirectionsSwapped(an, mo, me) ==
    IF an = "spot_preference"
    THEN IF mo < me THEN {"pr"} ELSE IF mo > me THEN {"rj"} ELSE {"pr", "rj", "s"}
    ELSE IF mo > me THEN {"at"} ELSE IF mo < me THEN {"rp"} ELSE {"at", "rp", "s"}

\* The labels the remarks of a significant result may carry.  The manual
\* decides on the means: attract species / reject a plate area when
\* observed mean < expected mean, repel species / prefer a plate area when
\* observed mean > expected mean.  It does not say what equal means give:
\* any of the labels is possible then.
Directions(an, mo, me) ==
    IF an = "spot_preference"
    THEN IF mo > me THEN {"pr"} ELSE IF mo < me THEN {"rj"} ELSE {"pr", "rj", "s"}
    ELSE IF mo < me THEN {"at"} ELSE IF mo > me THEN {"rp"} ELSE {"at", "rp", "s"}

\* The remarks of a test row.
Remarks(an, p, alpha, mo, me) ==
    IF IsSignificant(p, alpha) THEN Directions(an, mo, me) ELSE {"ns"}

\* Variant: one number of the table mistyped.
SPOT_DIST_TO_PROB_INTRA_Mistyped ==
    (1 :> 40) @@ (2 :> 32) @@ (4 :> 30) @@ (5 :> 46) @@ (8 :> 18) @@
    (9 :> 20) @@ (10 :> 32) @@ (13 :> 24) @@ (16 :> 10) @@ (17 :> 16) @@
    (18 :> 8) @@ (20 :> 12) @@ (25 :> 8) @@ (32 :> 2)

\* Spot distance (squared) -> number of spot pairs at that distance, out of
\* IntraTotal: the hard coded probabilities for intra-specific distances.
SPOT_DIST_TO_PROB_INTRA ==
    (1 :> 40) @@ (2 :> 32) @@ (4 :> 30) @@ (5 :> 48) @@ (8 :> 18) @@ (9 :> 20) @@
    (10 :> 32) @@ (13 :> 24) @@ (16 :> 10) @@ (17 :> 16) @@ (18 :> 8) @@
    (20 :> 12) @@ (25 :> 8) @@ (32 :> 2)

\* The same for inter-specific distances, out of InterTotal.
SPOT_DIST_TO_PROB_INTER ==
    (0 :> 25) @@ (1 :> 80) @@ (2 :> 64) @@ (4 :> 60) @@ (5 :> 96) @@ (8 :> 36) @@
    (9 :> 40) @@ (10 :> 64) @@ (13 :> 48) @@ (16 :> 20) @@ (17 :> 32) @@
    (18 :> 16) @@ (20 :> 24) @@ (25 :> 16) @@ (32 :> 4)

ProbTable(an) ==
    IF an = "attraction_intra" THEN SPOT_DIST_TO_PROB_INTRA ELSE SPOT_DIST_TO_PROB_INTER

ProbTotal(an) == IF an = "attraction_intra" THEN IntraTotal ELSE InterTotal

\* e(d) = N * p(d) < f, without fractions.
ExpectedBelow(an, n, d, f) == n * ProbTable(an)[d] < f * ProbTotal(an)

\* Variant: all expected frequencies are less than 5.
LowFrequencyAll(an, n) ==
    \A d \in DOMAIN ProbTable(an) : ExpectedBelow(an, n, d, MinExpectedFrequency)

\* "in case of the Chi Squared test one of the expected frequencies is less than 5"
LowFrequency(an, n) ==
    \E d \in DOMAIN ProbTable(an) : ExpectedBelow(an, n, d, MinExpectedFrequency)

\* The remarks of a row of the Chi-squared test on n observed distances.
ChiSquaredRemarks(an, n, p, alpha, mo, me) ==
    IF LowFrequency(an, n) THEN {"na"} ELSE Remarks(an, p, alpha, mo, me)

\* Numbers of observed distances tried: 0 and, for each distance class, the
\* values around the number at which its expected frequency reaches 5.
NDistances(an) ==
    {0} \cup UNION {
        LET t == (MinExpectedFrequency * ProbTotal(an)) \div ProbTable(an)[d]
        IN  {t - 1, t, t + 1} : d \in DOMAIN ProbTable(an)}

InitSig ==
    /\ pc = "start"
    /\ analysis = "none"
    /\ alpha_level = 1
    /\ n_repeats = 1
    /\ result = NoResult
    /\ repeat_i = 0
    /\ stats = NoStats
    /\ overall = FALSE
    /\ equal_means = FALSE

\* An analysis is selected and its preferences are read.
Begin ==
    /\ pc = "start"
    /\ pc' = "ready"
    /\ analysis' \in Analyses
    /\ alpha_level' \in AlphaChoices
    /\ n_repeats' \in RepeatChoices
    /\ UNCHANGED <<equal_means, result, repeat_i, stats, overall, distVars, grpVars, ratVars, batchVars, enumVars, prefVars, launchVars>>

\* The non-repeated Wilcoxon rank sum test on the data group.
WilcoxonTest ==
    /\ pc = "ready"
    /\ \E p \in PValues(alpha_level), mo \in Means, me \in Means :
         \E r \in Remarks(analysis, p, alpha_level, mo, me) :
            result' = [test |-> "wilcoxon", n |-> 0, p_value |-> p,
                       mean_observed |-> mo, mean_expected |-> me, remarks |-> r]
    /\ pc' = "tested"
    /\ UNCHANGED <<equal_means, analysis, alpha_level, n_repeats, repeat_i, stats, overall,
                   distVars, grpVars, ratVars, batchVars, enumVars, prefVars, launchVars>>

\* The Chi-squared test for given probabilities on the spot distances.
ChiSquaredTest ==
    /\ pc = "ready"
    /\ analysis \in {"attraction_intra", "attraction_inter"}
    /\ \E n \in NDistances(analysis), p \in PValues(alpha_level),
          mo \in Means, me \in Means :
         \E r \in ChiSquaredRemarks(analysis, n, p, alpha_level, mo, me) :
            result' = [test |-> "chisq", n |-> n, p_value |-> p,
                       mean_observed |-> mo, mean_expected |-> me, remarks |-> r]
    /\ pc' = "tested"
    /\ UNCHANGED <<equal_means, analysis, alpha_level, n_repeats, repeat_i, stats, overall,
                   distVars, grpVars, ratVars, batchVars, enumVars, prefVars, launchVars>>

\* Variant: what is not an attraction or a preference is counted as a
\* repulsion and a rejection.
BumpElse(s, r) ==
    [s EXCEPT
        !.n_significant = @ + (IF r # "ns" THEN 1 ELSE 0),
        !.n_non_significant = @ + (IF r = "ns" THEN 1 ELSE 0),
        !.n_preference = @ + (IF r = "pr" THEN 1 ELSE 0),
        !.n_rejection = @ + (IF r \notin {"pr", "at", "rp"} THEN 1 ELSE 0),
        !.n_attraction = @ + (IF r = "at" THEN 1 ELSE 0),
        !.n_repulsion = @ + (IF r \notin {"at", "pr", "rj"} THEN 1 ELSE 0)]

\* The counters of the repeated test: "how many times the test turned out
\* significant for the repeats", "not significant", and "how many times
\* there was a significant" preference, rejection, attraction, repulsion.
Bump(s, r) ==
    [s EXCEPT
        !.n_significant = @ + (IF r # "ns" THEN 1 ELSE 0),
        !.n_non_significant = @ + (IF r = "ns" THEN 1 ELSE 0),
        !.n_preference = @ + (IF r = "pr" THEN 1 ELSE 0),
        !.n_rejection = @ + (IF r = "rj" THEN 1 ELSE 0),
        !.n_attraction = @ + (IF r = "at" THEN 1 ELSE 0),
        !.n_repulsion = @ + (IF r = "rp" THEN 1 ELSE 0)]

\* Variant: one repeat too few.
RepeatsLeftButOne(i, n) == i < n - 1

\* Are there repeats left to perform of "the number of repeats to perform".
RepeatsLeft(i, n) == i < n

\* The repeated Wilcoxon test starts.
RepeatBegin ==
    /\ pc = "ready"
    /\ pc' = "repeating"
    /\ repeat_i' = 0
    /\ stats' = NoStats
    /\ equal_means' = FALSE
    /\ UNCHANGED <<analysis, alpha_level, n_repeats, result, overall, distVars, grpVars, ratVars, batchVars, enumVars, prefVars, launchVars>>

\* One repeat: the expected values are generated again, the test is run
\* and its outcome is counted.
RepeatStep ==
    /\ pc = "repeating"
    /\ RepeatsLeft(repeat_i, n_repeats)
    /\ \E p \in PValues(alpha_level), mo \in Means, me \in Means :
         \E r \in Remarks(analysis, p, alpha_level, mo, me) :
            /\ stats' = Bump(stats, r)
            /\ equal_means' = (equal_means \/ (r # "ns" /\ mo = me))
    /\ repeat_i' = repeat_i + 1
    /\ UNCHANGED <<pc, analysis, alpha_level, n_repeats, result, overall,
                   distVars, grpVars, ratVars, batchVars, enumVars, prefVars,
                   launchVars>>

\* Variant: more than (1 - alpha) of the repeats.
OverallSignificantGt(s, n, alpha) ==
    s.n_significant * PScale > n * (PScale - alpha)

\* "the result for a repeated test is only considered significant if
\* ((1 - alpha) * 100)% of the repeats resulted in a significant P-value":
\* n_significant / n >= 1 - alpha, without fractions.
OverallSignificant(s, n, alpha) ==
    s.n_significant * PScale >= n * (PScale - alpha)

\* All repeats are done: the repeated test gets its verdict.
RepeatEnd ==
    /\ pc = "repeating"
    /\ ~RepeatsLeft(repeat_i, n_repeats)
    /\ overall' = OverallSignificant(stats, n_repeats, alpha_level)
    /\ pc' = "repeated"
    /\ UNCHANGED <<equal_means, analysis, alpha_level, n_repeats, result, repeat_i, stats,
                   distVars, grpVars, ratVars, batchVars, enumVars, prefVars, launchVars>>

NextSig == Begin \/ WilcoxonTest \/ ChiSquaredTest \/ RepeatBegin \/ RepeatStep \/ RepeatEnd

----------------------------------------------------------------------------
(* Claims about the significance engine, checked under SpecSignificance *)

SigRow == pc = "tested" /\ result.remarks \notin {"none", "na"}

\* C1: in repeated mode with N repeats and alpha level alpha, the repeated
\* test is significant overall if and only if n_significant / N >= 1 - alpha,
\* where n_significant counts the repeats with a significant p-value; with
\* alpha = 0.05 and N = 20 that is: at least 19 of the 20 repeats.
C1_OverallSignificance ==
    pc = "repeated" =>
        /\ stats.n_significant + stats.n_non_significant = n_repeats
        /\ overall <=>
              (stats.n_significant * PScale >= n_repeats * (PScale - alpha_level))
        /\ (alpha_level * 20 = PScale /\ n_repeats = 20) =>
              (overall <=> stats.n_significant >= 19)

C1_Witness ==
    /\ pc = "repeated"
    /\ alpha_level * 20 = PScale
    /\ n_repeats = 20
    /\ stats.n_significant = 19
    /\ overall

C3_AttractionLabels ==
    (SigRow /\ analysis \in {"attraction_intra", "attraction_inter"}
            /\ result.p_value <= alpha_level) =>
        /\ (result.mean_observed < result.mean_expected) => (result.remarks = "at")
        /\ (result.mean_observed > result.mean_expected) => (result.remarks = "rp")

C3_Witness ==
    /\ SigRow
    /\ analysis = "attraction_inter"
    /\ result.test = "chisq"
    /\ result.mean_observed > result.mean_expected
    /\ result.remarks = "rp"

\* C4 as stated: in the spot-preference analysis every significant result
\* for a plate area is labelled preference when the observed mean is less
\* than the expected mean and rejection when it is greater.
C4_Original ==
    (SigRow /\ analysis = "spot_preference" /\ result.remarks # "ns") =>
        /\ (result.mean_observed < result.mean_expected) => (result.remarks = "pr")
        /\ (result.mean_observed > result.mean_expected) => (result.remarks = "rj")

\* C4 as amended: in the spot-preference analysis a result for a plate area
\* with the observed mean less than the expected mean is labelled rejection
\* if it is significant (it is never labelled preference), and one with the
\* observed mean greater than the expected mean is labelled preference if it
\* is significant (it is never labelled rejection).
C4_RejectionWhenObservedLess ==
    (SigRow /\ analysis = "spot_preference") =>
        /\ (result.mean_observed < result.mean_expected) =>
              (result.remarks \in {"ns", "rj"})
        /\ (result.mean_observed > result.mean_expected) =>
              (result.remarks \in {"ns", "pr"})

C4_Witness ==
    /\ SigRow
    /\ analysis = "spot_preference"
    /\ result.mean_observed < result.mean_expected
    /\ result.remarks = "rj"

\* C5: in the spot-preference analysis every result for a plate area whose
\* p-value is significant is labelled preference when the observed mean is
\* greater than the expected mean and rejection when it is less.
C5_PreferenceWhenObservedGreater ==
    (SigRow /\ analysis = "spot_preference" /\ result.p_value <= alpha_level) =>
        /\ (result.mean_observed > result.mean_expected) => (result.remarks = "pr")
        /\ (result.mean_observed < result.mean_expected) => (result.remarks = "rj")

C5_Witness ==
    /\ SigRow
    /\ analysis = "spot_preference"
    /\ result.p_value <= alpha_level
    /\ result.mean_observed > result.mean_expected
    /\ result.remarks = "pr"

----------------------------------------------------------------------------
(* Spot distances *)

\* The spots used: those of the three left columns of the plate, up to
\* MaxSpot (0, 1, 2 of the first row, 5, 6, ... of the second).
Spots == {i \in 0..MaxSpot : i % GridSide <= 2}

\* The spot selections a plate record can hold.
PlateChoices == {p \in SUBSET Spots : Cardinality(p) <= MaxPositive}

\* Row and column of a spot on the plate.
get_spot_position(i) == [row |-> i \div GridSide, col |-> i % GridSide]

\* The distance between two spots by the Pythagorean theorem; the distance
\* from one spot to the next, horizontally or vertically, is 1.  Squared.
distance(i, j) ==
    LET a == get_spot_position(i)
        b == get_spot_position(j)
    IN  (a.row - b.row) * (a.row - b.row) + (a.col - b.col) * (a.col - b.col)

\* Variant: every pair of distinct spots in both orders.
IntraPairsOrdered(p) == {c \in p \X p : c[1] # c[2]}

\* "All possible distances between the spots on each plate": the two-spot
\* combinations of the positive spots of one record.
IntraPairs(p) == {c \in p \X p : c[1] < c[2]}

\* Variant: all pairs of positive spots of the plate, whatever the species.
InterPairsUnion(a, b) == IntraPairs(a \cup b) \cup {<<x, x>> : x \in a \cap b}

\* "only inter-specific distances are calculated (distances between two
\* different species)": one spot of each species.
InterPairs(a, b) == a \X b

\* The distances of a set of spot pairs, as a bag.
DistanceBag(pairs) ==
    [d \in {distance(c[1], c[2]) : c \in pairs} |->
        Cardinality({c \in pairs : distance(c[1], c[2]) = d})]

\* Variant: plates of either selection.
MatchedEither(ia, ib) == ia \/ ib

\* "First the plate records are collected that contain both of the selected
\* species."
Matched(ia, ib) == ia /\ ib

SpotPairs(m, a, b) == IF m = "intra" THEN IntraPairs(a) ELSE InterPairs(a, b)

\* Variant: n spots drawn with replacement, so that spots may coincide.
RandomCopiesWithReplacement(n) ==
    {p \in SUBSET Spots : Cardinality(p) <= n /\ (n > 0 => p # {})}

\* The random copies of a record: "Each copy has the same number of positive
\* spots as its original, except the positive spots are placed randomly".
RandomCopies(n) == {p \in SUBSET Spots : Cardinality(p) = n}

InitDist ==
    /\ dpc = "start"
    /\ dmode = "none"
    /\ plate_a = {}
    /\ plate_b = {}
    /\ in_a = FALSE
    /\ in_b = FALSE
    /\ n_spots_a = 0
    /\ n_spots_b = 0
    /\ random_a = {}
    /\ random_b = {}
    /\ plate_observed = EmptyBag
    /\ plate_expected = EmptyBag
    /\ n_observed = 0
    /\ n_expected = 0
    /\ n_plates = 0

\* The analysis whose spot distances are calculated.
BeginDistances ==
    /\ dpc = "start"
    /\ dpc' = "load"
    /\ dmode' \in {"intra", "inter"}
    /\ UNCHANGED <<plate_a, plate_b, in_a, in_b, n_spots_a, n_spots_b, random_a,
                   random_b, plate_observed, plate_expected, n_observed,
                   n_expected, n_plates, sigVars, grpVars, ratVars, batchVars, enumVars, prefVars, launchVars>>

\* The observed spot distances of the next plate.  in_a and in_b tell whether
\* the first and the second selection have a record of the plate; a selection
\* without a record of the plate has no spots of it.
ObservedStep ==
    /\ dpc = "load"
    /\ n_plates < MaxPlates
    /\ \E a \in PlateChoices, b \in PlateChoices, ia \in BOOLEAN, ib \in BOOLEAN :
        /\ dmode = "intra" => (ia /\ ~ib)
        /\ ~ia => a = {}
        /\ ~ib => b = {}
        /\ plate_a' = a
        /\ plate_b' = b
        /\ in_a' = ia
        /\ in_b' = ib
        /\ plate_observed' =
              IF dmode = "intra" \/ Matched(ia, ib)
              THEN DistanceBag(SpotPairs(dmode, a, b)) ELSE EmptyBag
    /\ n_observed' = n_observed + BagCardinality(plate_observed')
    /\ dpc' = "observed"
    /\ UNCHANGED <<dmode, n_spots_a, n_spots_b, random_a, random_b, plate_expected,
                   n_expected, n_plates, sigVars, grpVars, ratVars, batchVars, enumVars, prefVars, launchVars>>

\* The numbers of positive spots of the plate are stored (plate_spot_totals).
SetPlateSpotTotals ==
    /\ dpc = "observed"
    /\ n_spots_a' = IF dmode = "intra" \/ Matched(in_a, in_b)
                    THEN Cardinality(plate_a) ELSE 0
    /\ n_spots_b' = IF dmode = "inter" /\ Matched(in_a, in_b)
                    THEN Cardinality(plate_b) ELSE 0
    /\ plate_a' = {}
    /\ plate_b' = {}
    /\ in_a' = FALSE
    /\ in_b' = FALSE
    /\ plate_observed' = EmptyBag
    /\ dpc' = "counted"
    /\ UNCHANGED <<dmode, random_a, random_b, plate_expected,
                   n_observed, n_expected, n_plates, sigVars, grpVars, ratVars, batchVars, enumVars, prefVars, launchVars>>

\* The expected spot distances of the plate: the distances of a random copy.
ExpectedStep ==
    /\ dpc = "counted"
    /\ \E ra \in RandomCopies(n_spots_a), rb \in RandomCopies(n_spots_b) :
        /\ random_a' = ra
        /\ random_b' = rb
        /\ plate_expected' = DistanceBag(SpotPairs(dmode, ra, rb))
    /\ n_expected' = n_expected + BagCardinality(plate_expected')
    /\ dpc' = "expected"
    /\ UNCHANGED <<dmode, plate_a, plate_b, in_a, in_b, n_spots_a, n_spots_b,
                   plate_observed, n_observed, n_plates, sigVars, grpVars, ratVars, batchVars, enumVars, prefVars, launchVars>>

\* On to the next plate record.
NextPlate ==
    /\ dpc = "expected"
    /\ random_a' = {}
    /\ random_b' = {}
    /\ plate_expected' = EmptyBag
    /\ n_spots_a' = 0
    /\ n_spots_b' = 0
    /\ n_plates' = n_plates + 1
    /\ dpc' = "load"
    /\ UNCHANGED <<dmode, plate_a, plate_b, in_a, in_b,
                   plate_observed, n_observed, n_expected, sigVars, grpVars, ratVars, batchVars, enumVars, prefVars, launchVars>>

\* A repeat: "before each repeat, the expected values are re-calculated".
\* The expected distances of the plate are discarded, to be generated anew.
RepeatExpected ==
    /\ dpc = "expected"
    /\ n_expected' = n_expected - BagCardinality(plate_expected)
    /\ random_a' = {}
    /\ random_b' = {}
    /\ plate_expected' = EmptyBag
    /\ dpc' = "counted"
    /\ UNCHANGED <<dmode, plate_a, plate_b, in_a, in_b, n_spots_a, n_spots_b,
                   plate_observed, n_observed, n_plates, sigVars, grpVars, ratVars, batchVars, enumVars, prefVars, launchVars>>

NextDist ==
    \/ BeginDistances
    \/ ObservedStep
    \/ SetPlateSpotTotals
    \/ ExpectedStep
    \/ NextPlate
    \/ RepeatExpected

NDirections(st) ==
    st.n_preference + st.n_rejection + st.n_attraction + st.n_repulsion

\* C27: the direction counters of a repeated test never exceed the
\* significance counter: n(attraction) + n(repulsion) <= n(significant) in
\* the attraction analyses, n(preference) + n(rejection) <= n(significant)
\* in spot preference, with equality unless a significant repeat had equal
\* observed and expected means; a non-significant repeat never increments
\* a direction counter.
C27_DirectionsWithinSignificant ==
    /\ [](pc \in {"repeating", "repeated"} =>
             /\ NDirections(stats) <= stats.n_significant
             /\ ~equal_means => NDirections(stats) = stats.n_significant
             /\ IF analysis = "spot_preference"
                THEN stats.n_attraction + stats.n_repulsion = 0
                ELSE stats.n_preference + stats.n_rejection = 0)
    /\ [][stats'.n_non_significant = stats.n_non_significant + 1
             => NDirections(stats') = NDirections(stats)]_vars

C27_Witness ==
    /\ pc = "repeated"
    /\ analysis = "attraction_inter"
    /\ n_repeats = 3
    /\ ~equal_means
    /\ stats.n_significant = 2
    /\ stats.n_attraction = 1
    /\ stats.n_repulsion = 1
    /\ stats.n_non_significant = 1

----------------------------------------------------------------------------
(* Spot preference: observed and expected positive spots per plate area *)

\* The spots tried: one spot or more of each of the plate areas A (0),
\* B (1), C (6, 7) and D (12).
PrefSpots == {i \in 0..(2 * MaxSpot) : i % (GridSide + 1) <= 1}

\* The plate area of a spot: A the four corners, B the other spots of the
\* border, D the spot in the middle, C the spots around it.
AreaOf(i) ==
    LET pos == get_spot_position(i)
        border(x) == x = 0 \/ x = GridSide - 1
        middle == (GridSide - 1) \div 2
    IN  IF border(pos.row) /\ border(pos.col) THEN "area_a"
        ELSE IF border(pos.row) \/ border(pos.col) THEN "area_b"
        ELSE IF pos.row = middle /\ pos.col = middle THEN "area_d"
        ELSE "area_c"

\* "the number of positive spots for each plate area"
AreaTotals(plate) ==
    [a \in {"area_a", "area_b", "area_c", "area_d"} |->
        Cardinality({i \in plate : AreaOf(i) = a})]

AreaSum(t) == t.area_a + t.area_b + t.area_c + t.area_d

NoTotals == [area_a |-> 0, area_b |-> 0, area_c |-> 0, area_d |-> 0]

\* Variant: the spots are drawn one by one and may fall on the same spot.
RandomPlatesWithReplacement(n) ==
    {q \in SUBSET PrefSpots : Cardinality(q) <= n /\ (n > 0 => q # {})}

\* "The random generator randomly puts an equal number of positive spots
\* on a virtual plate"
RandomPlates(n) == {q \in SUBSET PrefSpots : Cardinality(q) = n}

InitPref ==
    /\ ppc = "start"
    /\ pref_plate = {}
    /\ pref_random = {}
    /\ area_observed = NoTotals
    /\ area_expected = NoTotals
    /\ pref_repeat = 0
    /\ pref_repeats = 1

\* set_plate_area_totals_observed, for one plate that matches the species
\* selection.
SetPlateAreaTotalsObserved ==
    /\ ppc = "start"
    /\ \E plate \in SUBSET PrefSpots :
           /\ Cardinality(plate) >= 1
           /\ Cardinality(plate) <= MaxPositive
           /\ pref_plate' = plate
           /\ area_observed' = AreaTotals(plate)
    /\ pref_repeats' \in 1..MaxRepeats
    /\ ppc' = "observed"
    /\ UNCHANGED <<pref_random, area_expected, pref_repeat, sigVars, distVars,
                   grpVars, ratVars, batchVars, enumVars, launchVars>>

\* set_plate_area_totals_expected, for the same plate: before the first
\* test and again before each repeat.
SetPlateAreaTotalsExpected ==
    /\ ppc \in {"observed", "expected"}
    /\ pref_repeat < pref_repeats
    /\ \E q \in RandomPlates(Cardinality(pref_plate)) :
           /\ pref_random' = q
           /\ area_expected' = AreaTotals(q)
    /\ pref_repeat' = pref_repeat + 1
    /\ ppc' = "expected"
    /\ UNCHANGED <<pref_plate, area_observed, pref_repeats, sigVars, distVars,
                   grpVars, ratVars, batchVars, enumVars, launchVars>>

\* All repeats are done.
EndPreference ==
    /\ ppc = "expected"
    /\ pref_repeat = pref_repeats
    /\ ppc' = "done"
    /\ UNCHANGED <<pref_plate, pref_random, area_observed, area_expected,
                   pref_repeat, pref_repeats, sigVars, distVars, grpVars,
                   ratVars, batchVars, enumVars, launchVars>>

NextPref ==
    \/ SetPlateAreaTotalsObserved
    \/ SetPlateAreaTotalsExpected
    \/ EndPreference

----------------------------------------------------------------------------
(* Claims about spot preference, checked under SpecPreference *)

\* C24: for every plate of the spot preference analysis the randomized
\* plate used for the expected plate area counts has exactly as many
\* positive spots as the observed plate, on every repeat; only the
\* positions of the positive spots change.
C24_RandomPlateKeepsCount ==
    ppc \in {"expected", "done"} =>
        /\ Cardinality(pref_random) = Cardinality(pref_plate)
        /\ AreaSum(area_observed) = Cardinality(pref_plate)
        /\ AreaSum(area_expected) = AreaSum(area_observed)
        /\ pref_repeat >= 1

C24_Witness ==
    /\ ppc = "done"
    /\ pref_repeat = 2
    /\ pref_plate = {0, 1, 12}
    /\ pref_random = {6, 7, 12}
    /\ area_observed.area_a = 1
    /\ area_expected.area_c = 2

----------------------------------------------------------------------------
(* Distribution of the spot distances: "The frequencies were obtained by   *)
(* calculating all possible distances between two spots if all 25 spots    *)
(* are covered", and for two species "with ratio 25:25".                   *)

AllSpots == 0..(GridSide * GridSide - 1)

InitEnum ==
    /\ epc = "start"
    /\ enum_i = 0
    /\ freq_intra = EmptyBag
    /\ freq_inter = EmptyBag

BeginEnumeration ==
    /\ epc = "start"
    /\ epc' = "enumerating"
    /\ UNCHANGED <<enum_i, freq_intra, freq_inter, sigVars, distVars, grpVars,
                   ratVars, batchVars, prefVars, launchVars>>

\* The next two spots i and j of the plate: their distance is counted for
\* two species, and for one species if they are a pair of the plate.
EnumerateStep ==
    /\ epc = "enumerating"
    /\ enum_i < Cardinality(AllSpots) * Cardinality(AllSpots)
    /\ LET i == enum_i \div Cardinality(AllSpots)
           j == enum_i % Cardinality(AllSpots)
           d == SetToBag({distance(i, j)})
       IN  /\ freq_inter' = IF <<i, j>> \in InterPairs({i}, {j})
                            THEN freq_inter (+) d ELSE freq_inter
           /\ freq_intra' = IF <<i, j>> \in IntraPairs({i, j})
                            THEN freq_intra (+) d ELSE freq_intra
    /\ enum_i' = enum_i + 1
    /\ UNCHANGED <<epc, sigVars, distVars, grpVars, ratVars, batchVars,
                   prefVars, launchVars>>

EndEnumeration ==
    /\ epc = "enumerating"
    /\ enum_i = Cardinality(AllSpots) * Cardinality(AllSpots)
    /\ epc' = "enumerated"
    /\ UNCHANGED <<enum_i, freq_intra, freq_inter, sigVars, distVars, grpVars,
                   ratVars, batchVars, prefVars, launchVars>>

NextEnum == BeginEnumeration \/ EnumerateStep \/ EndEnumeration

----------------------------------------------------------------------------
(* Claims about the probability tables, checked under SpecEnumeration *)

\* C22: the hard coded probability tables equal the exhaustive enumeration
\* on the 5x5 plate: the intra-specific probability of a distance is the
\* number of unordered pairs of distinct spots at that distance out of 300,
\* the inter-specific one the number of ordered pairs of spots, identical
\* spots included, out of 625 (25 for distance 0, then twice the intra
\* counts), and each table sums to 1.
C22_TablesEqualEnumeration ==
    /\ BagCardinality(SPOT_DIST_TO_PROB_INTRA) = IntraTotal
    /\ BagCardinality(SPOT_DIST_TO_PROB_INTER) = InterTotal
    /\ epc = "enumerated" =>
           /\ freq_intra = SPOT_DIST_TO_PROB_INTRA
           /\ freq_inter = SPOT_DIST_TO_PROB_INTER
           /\ BagCardinality(freq_intra) = 300
           /\ BagCardinality(freq_inter) = 625
           /\ freq_inter[0] = 25
           /\ \A d \in DOMAIN freq_intra : freq_inter[d] = 2 * freq_intra[d]
           /\ DOMAIN freq_inter = DOMAIN freq_intra \cup {0}

C22_Witness ==
    /\ epc = "enumerated"
    /\ enum_i = 625
    /\ freq_intra[1] = 40
    /\ freq_intra[32] = 2
    /\ freq_inter[5] = 96

----------------------------------------------------------------------------
(* Claims about the spot distances, checked under SpecDistances *)

\* Number of spot pairs of the plate that the observed distances are taken
\* from, written out with row = index / 5 and col = index % 5.
PairsAt(d, pairs) ==
    Cardinality({c \in pairs :
        ((c[1] \div 5) - (c[2] \div 5)) * ((c[1] \div 5) - (c[2] \div 5))
          + ((c[1] % 5) - (c[2] % 5)) * ((c[1] % 5) - (c[2] % 5)) = d})

\* C7: the list of expected distances produced by the randomization has
\* exactly the length of the list of observed distances, for intra-specific
\* and for inter-specific generation, for every random placement: after
\* each plate the two totals are equal, and the expected distances of a
\* plate are as many as its observed distances (k*(k-1)/2 for k positive
\* spots, a*b for a and b positive spots of the two species).
C7_ExpectedLengthEqualsObserved ==
    /\ dpc \in {"load", "expected"} => n_expected = n_observed
    /\ dpc = "expected" =>
          BagCardinality(plate_expected) =
              IF dmode = "intra"
              THEN (n_spots_a * (n_spots_a - 1)) \div 2
              ELSE n_spots_a * n_spots_b

C7_Witness ==
    /\ dpc = "expected"
    /\ dmode = "inter"
    /\ n_plates = 1
    /\ n_spots_a = 2
    /\ n_spots_b = 3
    /\ BagCardinality(plate_expected) = 6
    /\ n_observed > 6
    /\ n_expected = n_observed

\* C8: the intra-specific observed distances of a record hold exactly one
\* entry per unordered pair of distinct positive spots, computed on the 5x5
\* grid with row = index / 5 and col = index % 5: k positive spots give
\* k*(k-1)/2 distances, all greater than 0; 0 or 1 positive spots give none;
\* the positive spots {0,1,2} give exactly the distances 1, 1 and 2.
C8_IntraObserved ==
    (dpc = "observed" /\ dmode = "intra") =>
        LET k == Cardinality(plate_a)
            unordered == {c \in plate_a \X plate_a : c[1] < c[2]}
        IN  /\ BagCardinality(plate_observed) = (k * (k - 1)) \div 2
            /\ \A d \in 0..32 : CopiesIn(d, plate_observed) = PairsAt(d, unordered)
            /\ \A d \in BagToSet(plate_observed) : d > 0
            /\ k <= 1 => plate_observed = EmptyBag
            /\ plate_a = {0, 1, 2} => plate_observed = (1 :> 2) @@ (4 :> 1)

C8_Witness ==
    /\ dpc = "observed"
    /\ dmode = "intra"
    /\ plate_a = {0, 1, 2}
    /\ plate_observed = (1 :> 2) @@ (4 :> 1)
    /\ n_observed = 3

\* C9: inter-specific observed distances are computed only for plates present
\* in both species selections; for such a plate with a positive spots of
\* species A and b of species B exactly a*b distances are emitted, one per
\* pair of an A spot and a B spot, and a distance is 0 exactly when the A
\* spot and the B spot are the same cell.
C9_InterObserved ==
    (dpc = "observed" /\ dmode = "inter") =>
        IF in_a /\ in_b
        THEN /\ BagCardinality(plate_observed) =
                    Cardinality(plate_a) * Cardinality(plate_b)
             /\ \A d \in 0..32 :
                    CopiesIn(d, plate_observed) = PairsAt(d, plate_a \X plate_b)
             /\ CopiesIn(0, plate_observed) = Cardinality(plate_a \cap plate_b)
        ELSE plate_observed = EmptyBag

C9_Witness ==
    /\ dpc = "observed"
    /\ dmode = "inter"
    /\ in_a /\ in_b
    /\ Cardinality(plate_a) = 2
    /\ Cardinality(plate_b) = 3
    /\ BagCardinality(plate_observed) = 6
    /\ CopiesIn(0, plate_observed) = 1

----------------------------------------------------------------------------
(* Record grouping *)

\* Numbers of positive spots of the records tried: the smallest and the
\* largest ones, and one in between.
SpotsNumbers == {1, 2, 12, MaxPositiveSpots - 1, MaxPositiveSpots}

\* Variant: all of the groups 1 to 25, and -24.
SpotsGroupsAll == [i \in 1..(MaxPositiveSpots + 1) |->
                      IF i <= MaxPositiveSpots THEN i ELSE 1 - MaxPositiveSpots]

\* The groups the tests are performed on: "Group 1 contains records with
\* just one positive spot, group 2 contains records with two positive spots,
\* et cetera.  Records of group 1 and 25 are left out however."; "The test
\* is also performed on a group with number -24."
SpotsGroups == [i \in 1..(MaxPositiveSpots - 1) |->
                   IF i <= MaxPositiveSpots - 2 THEN i + 1 ELSE 1 - MaxPositiveSpots]

\* Is a record with n positive spots part of group g.  For a negative group
\* number "the minus sign should be read as 'up to'", and "records of group
\* 1 will still be ignored".
\* Variant: "up to" read as every record with at most that many spots.
InSpotsGroupUpTo(n, g) == IF g < 0 THEN n <= 0 - g ELSE n = g

InSpotsGroup(n, g) == IF g < 0 THEN n >= 2 /\ n <= 0 - g ELSE n = g

\* Variant: a group is kept also when no record matches it.
AddGroupAlways(gs, g, matching) == gs @@ (g :> matching)

\* "groups that don't have matching records are skipped"
AddGroup(gs, g, matching) ==
    IF matching = {} THEN gs ELSE gs @@ (g :> matching)

\* "Each row contains the result of the test for one group"; skipped groups
\* "are not displayed in the list of results".
AddRow(rs, g, matching) ==
    IF matching = {}
    THEN rs
    ELSE Append(rs, [group |-> g, n_plates |-> Cardinality(matching)])

InitGrp ==
    /\ gpc = "start"
    /\ records = <<>>
    /\ group_i = 1
    /\ groups = <<>>
    /\ rows = <<>>

\* The records matching the locations and species selection.
LoadRecords ==
    /\ gpc = "start"
    /\ \E n \in 0..MaxRecords : records' \in [1..n -> SpotsNumbers]
    /\ gpc' = "grouping"
    /\ UNCHANGED <<group_i, groups, rows, sigVars, distVars, ratVars, batchVars, enumVars, prefVars, launchVars>>

\* The next group: its records are collected; a group without matching
\* records is skipped.
GroupStep ==
    /\ gpc = "grouping"
    /\ group_i <= Len(SpotsGroups)
    /\ LET g == SpotsGroups[group_i]
           matching == {r \in DOMAIN records : InSpotsGroup(records[r], g)}
       IN  /\ groups' = AddGroup(groups, g, matching)
           /\ rows' = AddRow(rows, g, matching)
    /\ group_i' = group_i + 1
    /\ UNCHANGED <<gpc, records, sigVars, distVars, ratVars, batchVars, enumVars, prefVars, launchVars>>

\* All groups are done.
GroupEnd ==
    /\ gpc = "grouping"
    /\ group_i > Len(SpotsGroups)
    /\ gpc' = "grouped"
    /\ UNCHANGED <<records, group_i, groups, rows, sigVars, distVars, ratVars, batchVars, enumVars, prefVars, launchVars>>

NextGrp == LoadRecords \/ GroupStep \/ GroupEnd

----------------------------------------------------------------------------
(* Record grouping by ratios groups *)

\* Numbers of positive spots of a species on the matching plate records
\* tried: the ends of the plate and both sides of the first group limit.
RatioNumbers == {1, 5, 6, MaxPositiveSpots - 1, MaxPositiveSpots}

\* "seq(start,end)": "a sequence of numbers s from a number range starting
\* with start and ending at end.  For example seq(1,6) = 1,2,3,4,5".
seq(start, end) == start..(end - 1)

\* "comb(s)": "a list of two-item combinations with replacement c from a
\* sequence of numbers s".
comb(s) == {c \in s \X s : c[1] <= c[2]}

\* Variant: ratio 25:25 is kept in ratios group 5.
RatiosGroupWith2525(g) ==
    CASE g = 1 -> comb(seq(1, 6))
      [] g = 2 -> comb(seq(1, 11)) \ comb(seq(1, 6))
      [] g = 3 -> comb(seq(1, 16)) \ comb(seq(1, 11))
      [] g = 4 -> comb(seq(1, 21)) \ comb(seq(1, 16))
      [] g = 5 -> comb(seq(1, 26)) \ comb(seq(1, 21))
      [] OTHER -> {}

\* The five ratios groups.  "Ratio 25:25 is removed from this group".
RatiosGroup(g) ==
    CASE g = 1 -> comb(seq(1, 6))
      [] g = 2 -> comb(seq(1, 11)) \ comb(seq(1, 6))
      [] g = 3 -> comb(seq(1, 16)) \ comb(seq(1, 11))
      [] g = 4 -> comb(seq(1, 21)) \ comb(seq(1, 16))
      [] g = 5 -> (comb(seq(1, 26)) \ comb(seq(1, 21))) \ comb({25})
      [] OTHER -> {}

\* The ratios groups the tests are performed on: "We've defined five ratios
\* groups"; "also performed on ratios group with number -5".
RatiosGroups == <<1, 2, 3, 4, 5, -5>>

\* Variant: the ratio in the order of the two species.
RatioOrdered(a, b) == <<a, b>>

\* The ratio of a plate record: "The order of the species doesn't matter
\* here, so a ratio A:B is considered the same as ratio B:A."
Ratio(a, b) == IF a <= b THEN <<a, b>> ELSE <<b, a>>

\* Is a plate record with n_spots_a : n_spots_b part of ratios group g.
\* Group -5 "includes ratios from all 5 groups".
InRatiosGroup(a, b, g) ==
    IF g < 0
    THEN \E k \in 1..(0 - g) : Ratio(a, b) \in RatiosGroup(k)
    ELSE Ratio(a, b) \in RatiosGroup(g)

InitRat ==
    /\ rpc = "start"
    /\ ratios = <<>>
    /\ ratios_group_i = 1
    /\ ratios_groups = <<>>
    /\ ratios_rows = <<>>

\* The plate records that contain both species, with the number of positive
\* spots of each of the two species.
LoadRatios ==
    /\ rpc = "start"
    /\ \E n \in 0..MaxRatios :
           ratios' \in [1..n -> RatioNumbers \X RatioNumbers]
    /\ rpc' = "grouping"
    /\ UNCHANGED <<ratios_group_i, ratios_groups, ratios_rows,
                   sigVars, distVars, grpVars, batchVars, enumVars, prefVars, launchVars>>

\* The next ratios group: its plate records are collected; a group without
\* matching records is skipped.
RatiosGroupStep ==
    /\ rpc = "grouping"
    /\ ratios_group_i <= Len(RatiosGroups)
    /\ LET g == RatiosGroups[ratios_group_i]
           matching == {r \in DOMAIN ratios :
                           InRatiosGroup(ratios[r][1], ratios[r][2], g)}
       IN  /\ ratios_groups' = AddGroup(ratios_groups, g, matching)
           /\ ratios_rows' = AddRow(ratios_rows, g, matching)
    /\ ratios_group_i' = ratios_group_i + 1
    /\ UNCHANGED <<rpc, ratios, sigVars, distVars, grpVars, batchVars, enumVars, prefVars, launchVars>>

\* All ratios groups are done.
RatiosGroupEnd ==
    /\ rpc = "grouping"
    /\ ratios_group_i > Len(RatiosGroups)
    /\ rpc' = "grouped"
    /\ UNCHANGED <<ratios, ratios_group_i, ratios_groups, ratios_rows,
                   sigVars, distVars, grpVars, batchVars, enumVars, prefVars, launchVars>>

NextRat == LoadRatios \/ RatiosGroupStep \/ RatiosGroupEnd

----------------------------------------------------------------------------
(* Claims about the record grouping, checked under SpecGrouping *)

\* C10: grouping the records of a species by number of positive spots never
\* produces a group with key 1 or key 25, whatever the records are, also
\* when all of them have 1 or 25 positive spots.
C10_NoGroup1Or25 ==
    /\ 1 \notin DOMAIN groups
    /\ 25 \notin DOMAIN groups
    /\ gpc = "grouped" => DOMAIN groups \subseteq (2..24) \cup {-24}

C10_Witness ==
    /\ gpc = "grouped"
    /\ \E r \in DOMAIN records : records[r] = 1
    /\ \E r \in DOMAIN records : records[r] = 25
    /\ \E r \in DOMAIN records : records[r] = 2
    /\ 2 \in DOMAIN groups
    /\ 1 \notin DOMAIN groups
    /\ 25 \notin DOMAIN groups

\* C11: the group -24 contains exactly the records that have between 2 and
\* 24 positive spots, which is the union of the groups 2 to 24; records with
\* 1 positive spot and records with 25 positive spots are never part of it.
C11_GroupUpTo24 ==
    gpc = "grouped" =>
        LET pooled == {r \in DOMAIN records :
                          records[r] >= 2 /\ records[r] <= 24}
            single == UNION {groups[g] : g \in DOMAIN groups \cap (2..24)}
        IN  /\ pooled = single
            /\ IF pooled = {}
               THEN -24 \notin DOMAIN groups
               ELSE /\ -24 \in DOMAIN groups
                    /\ groups[-24] = pooled
                    /\ \A r \in groups[-24] : records[r] \notin {1, 25}

C11_Witness ==
    /\ gpc = "grouped"
    /\ Len(records) = 3
    /\ records[1] = 1
    /\ records[2] = 12
    /\ records[3] = 25
    /\ -24 \in DOMAIN groups
    /\ groups[-24] = {2}

----------------------------------------------------------------------------
(* Batch mode: the selected analysis is repeated for each species of a     *)
(* species selection, in a pool of concurrent processes.                   *)

\* What the data of a species lead to: an analysis with a significant test,
\* an analysis without one, not enough data, or an unexpected exception.
UnitInputs == {"significant", "not_significant", "no_plates", "raises"}

\* Variant: a unit that raises is reported as having not enough data.
OutcomeFailureAsNa(input) ==
    CASE input = "significant" -> "s"
      [] input = "not_significant" -> "ns"
      [] input = "no_plates" -> "na"
      [] input = "raises" -> "na"

\* The result of one unit of work.  Insufficient data "yields a na row
\* rather than aborting the batch"; an unexpected exception is "a per-unit
\* failure marker distinct from na".
Outcome(input) ==
    CASE input = "significant" -> "s"
      [] input = "not_significant" -> "ns"
      [] input = "no_plates" -> "na"
      [] input = "raises" -> "failed"

Units == 1..n_units

Running == {u \in Units : unit_state[u] = "running"}

\* Variant: the results in the order in which they were received.
InSubmissionOrderNot(coll) == coll

\* The results "re-associated with their originating species/pair
\* identity", in "the original submission order, not completion order".
InSubmissionOrder(coll) ==
    [k \in 1..Len(coll) |->
        LET before(j) == {i \in 1..Len(coll) : coll[i].unit < coll[j].unit}
            j == CHOOSE i \in 1..Len(coll) : Cardinality(before(i)) = k - 1
        IN  coll[j]]

\* The result of a unit is received, with the unit it belongs to.
Received(coll, u, input) ==
    Append(coll, [unit |-> u, code |-> Outcome(input)])

\* Is a row of the summary report displayed: "a result is only displayed if
\* one of the statistical tests was considered significant".
Displayed(row) == row.code = "s"

\* Variant: a row for every species.
SummaryRowsAll(rs) == rs

\* "The summary report only displays the species that had significant
\* results."
SummaryRows(rs) == SelectSeq(rs, Displayed)

\* Variant: the signal kills the units that are executing.
AfterCancelKill(st) ==
    [u \in DOMAIN st |-> IF st[u] \in {"queued", "running"}
                         THEN "abandoned" ELSE st[u]]

\* The cancellation signal: "already-dispatched-but-not-started units are
\* abandoned; in-flight units are allowed to finish (no hard kill)".
AfterCancel(st) ==
    [u \in DOMAIN st |-> IF st[u] = "queued" THEN "abandoned" ELSE st[u]]

\* Variant: a cancelled run reports what it has received.
CancelledResultsPartial(coll) == coll

\* "partial results already collected up to the cancellation point should
\* be discarded rather than partially reported"
CancelledResults(coll) == <<>>

Clamp(x, lo, hi) == IF x < lo THEN lo ELSE IF x > hi THEN hi ELSE x

\* The values the preferences accept: "The number of processes must be at
\* least 1 and no more than the number of CPUs."
ConfiguredProcesses(c) == {p \in 0..(c + 1) : p >= 1 /\ p <= c}

\* Variant: 90% of the CPUs as it comes, 0 on a computer with one CPU.
DefaultProcessesUnclamped(c) ==
    {(DefaultProcessesPercent * c) \div 100,
     (DefaultProcessesPercent * c + 99) \div 100}

\* "The default value of this option equals to 90% of the available CPUs",
\* rounded to an integer one way or the other, within the accepted range.
DefaultProcesses(c) ==
    {Clamp((DefaultProcessesPercent * c) \div 100, 1, c),
     Clamp((DefaultProcessesPercent * c + 99) \div 100, 1, c)}

\* Variant: one process more than the number set.
PoolHasFreeProcessLe(running, procs) == Cardinality(running) <= procs

\* Variant: the last process of the pool is never used.
PoolHasFreeProcessButOne(running, procs) == Cardinality(running) < procs - 1

\* "The value set here corresponds to the number of concurrent processes
\* that will execute analyses."
PoolHasFreeProcess(running, procs) == Cardinality(running) < procs

InitBatch ==
    /\ bpc = "start"
    /\ n_units = 0
    /\ unit_input = <<>>
    /\ unit_state = <<>>
    /\ processes = 1
    /\ cpus = 1
    /\ collected = <<>>
    /\ cancelled = FALSE
    /\ n_at_cancel = 0
    /\ results = <<>>
    /\ summary = <<>>

\* The batch is started: every species of the selection is one unit of
\* work, submitted in the order of the selection.  "The number of processes
\* must be at least 1 and no more than the number of CPUs."
BeginBatch ==
    /\ bpc = "start"
    /\ \E n \in 1..MaxUnits :
           /\ n_units' = n
           /\ unit_input' \in [1..n -> UnitInputs]
           /\ unit_state' = [u \in 1..n |-> "queued"]
    /\ \E c \in 1..MaxCPUs :
           /\ cpus' = c
           /\ processes' \in ConfiguredProcesses(c) \cup DefaultProcesses(c)
    /\ bpc' = "running"
    /\ UNCHANGED <<collected, cancelled, n_at_cancel, results, summary,
                   sigVars, distVars, grpVars, ratVars, enumVars, prefVars, launchVars>>

\* A free process of the pool takes the next unit of the queue.
Dispatch(u) ==
    /\ bpc = "running"
    /\ ~cancelled
    /\ unit_state[u] = "queued"
    /\ \A v \in Units : v < u => unit_state[v] # "queued"
    /\ PoolHasFreeProcess(Running, processes)
    /\ unit_state' = [unit_state EXCEPT ![u] = "running"]
    /\ UNCHANGED <<bpc, n_units, unit_input, processes, cpus, collected, cancelled,
                   n_at_cancel, results, summary,
                   sigVars, distVars, grpVars, ratVars, enumVars, prefVars, launchVars>>

\* A process ends the analysis of its unit, in any order among the units
\* that are executing; the result is received with the unit it belongs to.
Finish(u) ==
    /\ bpc = "running"
    /\ unit_state[u] = "running"
    /\ unit_state' = [unit_state EXCEPT ![u] = "done"]
    /\ collected' = Received(collected, u, unit_input[u])
    /\ UNCHANGED <<bpc, n_units, unit_input, processes, cpus, cancelled,
                   n_at_cancel, results, summary,
                   sigVars, distVars, grpVars, ratVars, enumVars, prefVars, launchVars>>

\* The cancel button of the progress dialog.
Cancel ==
    /\ bpc = "running"
    /\ ~cancelled
    /\ cancelled' = TRUE
    /\ n_at_cancel' = Len(collected)
    /\ unit_state' = AfterCancel(unit_state)
    /\ UNCHANGED <<bpc, n_units, unit_input, processes, cpus, collected, results,
                   summary, sigVars, distVars, grpVars, ratVars, enumVars, prefVars, launchVars>>

\* All units are done: the results are put in the order of submission and
\* summarized.
Summarize ==
    /\ bpc = "running"
    /\ ~cancelled
    /\ \A u \in Units : unit_state[u] = "done"
    /\ results' = InSubmissionOrder(collected)
    /\ summary' = SummaryRows(InSubmissionOrder(collected))
    /\ bpc' = "done"
    /\ UNCHANGED <<n_units, unit_input, unit_state, processes, cpus, collected,
                   cancelled, n_at_cancel, sigVars, distVars, grpVars, ratVars, enumVars, prefVars, launchVars>>

\* The cancelled batch ends once the units in flight are done.
EndCancelled ==
    /\ bpc = "running"
    /\ cancelled
    /\ Running = {}
    /\ collected' = CancelledResults(collected)
    /\ results' = CancelledResults(collected)
    /\ summary' = SummaryRows(CancelledResults(collected))
    /\ bpc' = "cancelled"
    /\ UNCHANGED <<n_units, unit_input, unit_state, processes, cpus, cancelled,
                   n_at_cancel, sigVars, distVars, grpVars, ratVars, enumVars, prefVars, launchVars>>

NextBatch ==
    \/ BeginBatch
    \/ \E u \in Units : Dispatch(u)
    \/ \E u \in Units : Finish(u)
    \/ Cancel
    \/ Summarize
    \/ EndCancelled

----------------------------------------------------------------------------
(* Claims about the ratios groups, checked under SpecRatios *)

\* The ratios groups among 1 to 5 that a plate record with a : b positive
\* spots is part of.
RatiosKeys(a, b) == {g \in 1..5 : InRatiosGroup(a, b, g)}

\* The group of the range of five that holds the larger of the two counts.
LargerCountGroup(a, b) == (((IF a >= b THEN a ELSE b) - 1) \div 5) + 1

\* All ratios of the plate: the groups do not depend on the order of the two
\* species and are those of the larger count.
RatiosKeysByLargerCount ==
    \A a \in 1..25 : \A b \in 1..25 :
        /\ RatiosKeys(a, b) = RatiosKeys(b, a)
        /\ (a # 25 \/ b # 25) => RatiosKeys(a, b) = {LargerCountGroup(a, b)}

\* C12: the ratios group of a plate depends only on the unordered pair of
\* the positive-spot counts of the two species, so (a,b) and (b,a) get the
\* same group, which is given by the larger count (1-5 group 1, 6-10
\* group 2, 11-15 group 3, 16-20 group 4, 21-25 group 5); (5,6) is in
\* group 2, (1,25) in group 5, and every pair other than (25,25) is in
\* exactly one of the groups 1 to 5.
C12_RatiosGroupOfLargerCount ==
    /\ RatiosKeysByLargerCount
    /\ RatiosKeys(5, 6) = {2}
    /\ RatiosKeys(1, 25) = {5}
    /\ rpc = "grouped" =>
           \A r \in DOMAIN ratios : \A g \in 1..5 :
               (g \in DOMAIN ratios_groups /\ r \in ratios_groups[g])
               <=> /\ ratios[r] # <<25, 25>>
                   /\ g = LargerCountGroup(ratios[r][1], ratios[r][2])

C12_Witness ==
    /\ rpc = "grouped"
    /\ ratios = <<(<<6, 5>>), (<<1, 25>>)>>
    /\ DOMAIN ratios_groups = {2, 5, -5}
    /\ ratios_groups[2] = {1}
    /\ ratios_groups[5] = {2}

\* C13: a plate on which both species have 25 positive spots is never part
\* of a ratios group: it is in none of the groups 1 to 5 and not in group
\* -5, which contains exactly the plates of the groups 1 to 5.
C13_Ratio2525InNoGroup ==
    /\ \A g \in 1..5 : <<25, 25>> \notin RatiosGroup(g)
    /\ rpc = "grouped" =>
           LET single == UNION {ratios_groups[g] :
                                   g \in DOMAIN ratios_groups \cap (1..5)}
           IN  /\ \A r \in DOMAIN ratios :
                      ratios[r] = <<25, 25>> =>
                          \A g \in DOMAIN ratios_groups :
                              r \notin ratios_groups[g]
               /\ IF single = {}
                  THEN -5 \notin DOMAIN ratios_groups
                  ELSE /\ -5 \in DOMAIN ratios_groups
                       /\ ratios_groups[-5] = single

C13_Witness ==
    /\ rpc = "grouped"
    /\ ratios = <<(<<25, 25>>), (<<24, 25>>)>>
    /\ DOMAIN ratios_groups = {5, -5}
    /\ ratios_groups[5] = {2}
    /\ ratios_groups[-5] = {2}

----------------------------------------------------------------------------
(* Claims about batch mode, checked under SpecBatch *)

\* The code that the report shows for each kind of unit.
ExpectedCode ==
    [significant |-> "s", not_significant |-> "ns", no_plates |-> "na",
     raises |-> "failed"]

\* The units that have a row in the summary report.
SummaryUnits == {summary[i].unit : i \in DOMAIN summary}

\* C15: each collected result is associated with the species that was
\* submitted for it, and the rows of the summary appear in the order in
\* which the units were submitted, for every order in which the processes
\* complete.
C15_SubmissionOrder ==
    bpc = "done" =>
        /\ Len(results) = n_units
        /\ \A u \in Units :
               /\ results[u].unit = u
               /\ results[u].code = ExpectedCode[unit_input[u]]
        /\ \A i \in DOMAIN summary : \A j \in DOMAIN summary :
               i < j => summary[i].unit < summary[j].unit
        /\ \A i \in DOMAIN summary :
               summary[i].code = ExpectedCode[unit_input[summary[i].unit]]

C15_Witness ==
    /\ bpc = "done"
    /\ n_units = 3
    /\ collected[1].unit = 2
    /\ collected[2].unit = 3
    /\ collected[3].unit = 1
    /\ unit_input = <<"significant", "not_significant", "significant">>
    /\ Len(summary) = 2
    /\ summary[1].unit = 1
    /\ summary[2].unit = 3

C17_SummaryOnlySignificant ==
    bpc = "done" =>
        /\ \A u \in Units :
               (u \in SummaryUnits) <=> (unit_input[u] = "significant")
        /\ Len(summary) =
               Cardinality({u \in Units : unit_input[u] = "significant"})

C17_Witness ==
    /\ bpc = "done"
    /\ unit_input = <<"not_significant", "significant">>
    /\ SummaryUnits = {2}
    /\ Len(results) = 2

\* C18: when a unit of a batch run raises an unexpected exception, the
\* failure is recorded for that unit only, with a marker different from na;
\* every other unit still runs to completion and reports its own result.
C18_FailureIsolated ==
    /\ \A i \in DOMAIN collected :
           (collected[i].code \notin {"s", "ns", "na"})
           <=> (unit_input[collected[i].unit] = "raises")
    /\ bpc = "done" =>
           \A u \in Units :
               /\ unit_state[u] = "done"
               /\ IF unit_input[u] = "raises"
                  THEN results[u].code = "failed"
                  ELSE results[u].code = ExpectedCode[unit_input[u]]

C18_Witness ==
    /\ bpc = "done"
    /\ unit_input = <<"raises", "significant", "no_plates">>
    /\ results[1].code = "failed"
    /\ results[2].code = "s"
    /\ results[3].code = "na"

\* C19: after the cancellation signal is raised no unit that had not yet
\* started is ever started, and every unit that was executing runs to its
\* end: none is killed, and the run does not end before they are done.
C19_CancelStartsNothing ==
    /\ [](bpc = "cancelled" => Running = {})
    /\ [][cancelled' =>
             \A u \in Units :
                 /\ unit_state[u] \in {"queued", "abandoned"}
                        => unit_state'[u] = "abandoned"
                 /\ unit_state[u] = "running"
                        => unit_state'[u] \in {"running", "done"}
                 /\ unit_state[u] = "done" => unit_state'[u] = "done"]_vars

C19_Witness ==
    /\ bpc = "cancelled"
    /\ n_units = 3
    /\ n_at_cancel = 0
    /\ unit_state = <<"done", "done", "abandoned">>

\* C20: a cancelled batch run ends in a terminal cancelled state that is
\* not an error and reports no summary rows: the results collected before
\* the cancellation are discarded.
C20_CancelledRunIsVoid ==
    bpc = "cancelled" =>
        /\ cancelled
        /\ summary = <<>>
        /\ results = <<>>
        /\ collected = <<>>
        /\ ~ENABLED NextBatch

C20_Witness ==
    /\ bpc = "cancelled"
    /\ n_at_cancel = 2
    /\ unit_state = <<"done", "done", "abandoned">>
    /\ unit_input[1] = "significant"
    /\ summary = <<>>

\* Numbers of CPUs for which the default number of processes is examined.
CoreCounts == 1..(8 * MaxCPUs)

C29_AtMostProcessesRunning ==
    /\ [](Cardinality(Running) <= processes)
    /\ [][\A u \in Units :
             /\ (unit_state'[u] = "running" /\ unit_state[u] # "running")
                    => unit_state[u] = "queued"
             /\ unit_state[u] # "queued" => unit_state'[u] # "queued"]_vars

C29_Witness ==
    /\ bpc = "running"
    /\ processes = 2
    /\ n_units = 3
    /\ unit_state = <<"running", "running", "queued">>

\* C30: under fair scheduling of the processes every batch run reaches a
\* terminal state: every submitted unit has finished, with a result, na or
\* a failure marker, and the caller has the summary, or the run was
\* cancelled; no unit stays queued or running forever, also when another
\* unit has failed.
C30_BatchTerminates ==
    /\ (bpc = "running") ~> (bpc \in {"done", "cancelled"})
    /\ [](bpc = "done" =>
             /\ \A u \in Units : unit_state[u] = "done"
             /\ Len(results) = n_units
             /\ \A i \in DOMAIN results :
                    results[i].code \in {"s", "ns", "na", "failed"})
    /\ [](bpc \in {"done", "cancelled"} =>
             \A u \in Units : unit_state[u] \in {"done", "abandoned"})

C30_Witness ==
    /\ bpc = "done"
    /\ processes = 1
    /\ unit_input = <<"raises", "significant">>
    /\ results[1].code = "failed"
    /\ results[2].code = "s"

----------------------------------------------------------------------------
(* Claims about both groupings, checked under SpecGroupers *)

\* C14: a group with zero matching records never appears as a key of the
\* grouping result and never produces a row of results, for the grouping
\* by number of positive spots and for the grouping by ratios groups.
C14_NoEmptyGroups ==
    /\ \A g \in DOMAIN groups : groups[g] # {}
    /\ \A g \in DOMAIN ratios_groups : ratios_groups[g] # {}
    /\ \A i \in DOMAIN rows :
           rows[i].n_plates > 0 /\ rows[i].group \in DOMAIN groups
    /\ \A i \in DOMAIN ratios_rows :
           /\ ratios_rows[i].n_plates > 0
           /\ ratios_rows[i].group \in DOMAIN ratios_groups
    /\ gpc = "grouped" =>
           \A i \in DOMAIN SpotsGroups :
               (SpotsGroups[i] \in DOMAIN groups)
               <=> \E r \in DOMAIN records :
                       InSpotsGroup(records[r], SpotsGroups[i])
    /\ rpc = "grouped" =>
           \A i \in DOMAIN RatiosGroups :
               (RatiosGroups[i] \in DOMAIN ratios_groups)
               <=> \E r \in DOMAIN ratios :
                       InRatiosGroup(ratios[r][1], ratios[r][2], RatiosGroups[i])

C14_Witness ==
    /\ gpc = "grouped"
    /\ records = <<2, 12>>
    /\ DOMAIN groups = {2, 12, -24}
    /\ Len(rows) = 3

----------------------------------------------------------------------------
(* The window to select an analysis (setlyze.pyw, SETLyze 0.1) *)

\* The analyses of the radio buttons.
RadioAnalyses == {"spot_preference", "attraction_intra", "attraction_inter",
                  "relations"}

\* The local database file: absent, without the rows 'source' and 'date' in
\* its table info, saved from "setl-database" or "csv-msaccess", or saved
\* from an unknown data source.
DbFiles == {"none", "no_info", "saved", "unknown_source"}

\* What the handlers of the window change.
LauncherState ==
    [has |-> has_local_db, threads |-> n_threads, dialogs |-> n_dialogs,
     begun |-> n_begun, analysis |-> begun_analysis,
     pending |-> pending_beginning, path |-> "none", saved |-> FALSE,
     exited |-> FALSE]

\* setlyze.analysis.<selected>.Begin(): the analysis announces itself
\* with the signal 'beginning-analysis'.
AnalysisBegin(L) ==
    [L EXCEPT !.begun = @ + 1, !.analysis = selected, !.pending = @ + 1,
              !.path = "begin"]

on_make_local_db(L) ==
    [L EXCEPT !.dialogs = @ + 1, !.threads = @ + 1, !.path = "make_db"]

\* Variant: an analysis is begun whatever 'has-local-db' is.
NeedsLocalDBNever(has) == FALSE

\* "if not setlyze.config.cfg.get('has-local-db')"
NeedsLocalDB(has) == ~has

RECURSIVE on_continue(_, _, _)
RECURSIVE make_local_database(_, _, _)

make_local_database(L, file, response) ==
    IF file = "none" THEN on_make_local_db(L)
    ELSE IF file = "no_info" THEN on_make_local_db(L)
    ELSE IF file = "unknown_source"
         THEN [L EXCEPT !.exited = TRUE, !.path = "exit"]
    ELSE IF response = "yes"
         THEN on_continue([L EXCEPT !.has = TRUE, !.saved = TRUE],
                          file, response)
    ELSE on_make_local_db(L)

on_continue(L, file, response) ==
    IF NeedsLocalDB(L.has)
    THEN make_local_database(L, file, response)
    ELSE AnalysisBegin(L)

\* Variant: the handler stays connected.
destroy_handler_connections_kept(h) == h

\* "if self.handler3: disconnect(self.handler3); self.handler3 = None"
destroy_handler_connections(h) == IF h THEN FALSE ELSE h

\* The state after a handler that called on_continue.
Continued(L) ==
    /\ has_local_db' = L.has
    /\ n_threads' = L.threads
    /\ n_dialogs' = L.dialogs
    /\ n_begun' = L.begun
    /\ begun_analysis' = L.analysis
    /\ pending_beginning' = L.pending
    /\ last_path' = L.path
    /\ last_saved' = L.saved
    /\ lpc' = IF L.exited THEN "exited" ELSE lpc

InitLaunch ==
    /\ lpc = "start"
    /\ selected = "spot_preference"
    /\ db_file = "none"
    /\ has_local_db = FALSE
    /\ handler3 = FALSE
    /\ window_shown = FALSE
    /\ n_threads = 0
    /\ n_dialogs = 0
    /\ n_begun = 0
    /\ begun_analysis = "none"
    /\ pending_beginning = 0
    /\ n_started = 0
    /\ n_closed = 0
    /\ n_signals = 0
    /\ n_signal_continue = 0
    /\ last_path = "none"
    /\ last_saved = FALSE

\* main(): SelectAnalysis() connects the handlers and shows the window.
Launch ==
    /\ lpc = "start"
    /\ lpc' = "selecting"
    /\ db_file' \in DbFiles
    /\ handler3' = TRUE
    /\ window_shown' = TRUE
    /\ UNCHANGED <<selected, has_local_db, n_threads, n_dialogs, n_begun,
                   begun_analysis, pending_beginning, n_started, n_closed,
                   n_signals, n_signal_continue, last_path, last_saved,
                   sigVars, distVars, grpVars, ratVars, batchVars, enumVars,
                   prefVars>>

\* The user activates another radio button.
on_toggled(a) ==
    /\ lpc = "selecting"
    /\ window_shown
    /\ a # selected
    /\ selected' = a
    /\ UNCHANGED <<lpc, db_file, has_local_db, handler3, window_shown,
                   n_threads, n_dialogs, n_begun, begun_analysis,
                   pending_beginning, n_started, n_closed, n_signals,
                   n_signal_continue, last_path, last_saved,
                   sigVars, distVars, grpVars, ratVars, batchVars, enumVars,
                   prefVars>>

\* The user presses Continue: on_continue, with the answer to "Use saved
\* data?" when that dialog is shown.
ContinueClicked ==
    /\ lpc = "selecting"
    /\ window_shown
    /\ n_begun < MaxBegun
    /\ n_threads < MaxThreads
    /\ \E response \in {"yes", "no"} :
           Continued(on_continue(LauncherState, db_file, response))
    /\ UNCHANGED <<selected, db_file, handler3, window_shown, n_started,
                   n_closed, n_signals, n_signal_continue,
                   sigVars, distVars, grpVars, ratVars, batchVars, enumVars,
                   prefVars>>

\* A MakeLocalDB thread ends: the local database is made, the progress
\* dialog is closed and 'progress-dialog-closed' is emitted, which calls
\* on_continue while the handler is connected.
MakeLocalDBDone ==
    /\ lpc = "selecting"
    /\ n_threads > 0
    /\ n_begun < MaxBegun
    /\ n_signals < MaxSignals
    /\ db_file' = "saved"
    /\ n_signals' = n_signals + 1
    /\ LET L == [LauncherState EXCEPT !.has = TRUE, !.threads = @ - 1,
                                      !.dialogs = @ - 1]
       IN  IF handler3
           THEN /\ Continued(on_continue(L, "saved", "yes"))
                /\ n_signal_continue' = n_signal_continue + 1
           ELSE /\ Continued([L EXCEPT !.path = last_path,
                                       !.saved = last_saved])
                /\ UNCHANGED n_signal_continue
    /\ UNCHANGED <<selected, handler3, window_shown, n_started, n_closed,
                   sigVars, distVars, grpVars, ratVars, batchVars, enumVars,
                   prefVars>>

\* on_analysis_started: 'beginning-analysis' is received.
on_analysis_started ==
    /\ lpc = "selecting"
    /\ pending_beginning > 0
    /\ pending_beginning' = pending_beginning - 1
    /\ n_started' = n_started + 1
    /\ handler3' = destroy_handler_connections(handler3)
    /\ window_shown' = FALSE
    /\ UNCHANGED <<lpc, selected, db_file, has_local_db, n_threads, n_dialogs,
                   n_begun, begun_analysis, n_closed, n_signals,
                   n_signal_continue, last_path, last_saved,
                   sigVars, distVars, grpVars, ratVars, batchVars, enumVars,
                   prefVars>>

\* A progress dialog of a running analysis is closed:
\* 'progress-dialog-closed' is emitted.
AnalysisProgressDialogClosed ==
    /\ lpc = "selecting"
    /\ n_started > n_closed
    /\ n_signals < MaxSignals
    /\ n_signals' = n_signals + 1
    /\ IF handler3
       THEN /\ n_begun < MaxBegun
            /\ n_threads < MaxThreads
            /\ \E response \in {"yes", "no"} :
                   Continued(on_continue(LauncherState, db_file, response))
            /\ n_signal_continue' = n_signal_continue + 1
       ELSE UNCHANGED <<lpc, has_local_db, n_threads, n_dialogs, n_begun,
                        begun_analysis, pending_beginning, last_path,
                        last_saved, n_signal_continue>>
    /\ UNCHANGED <<selected, db_file, handler3, window_shown, n_started,
                   n_closed, sigVars, distVars, grpVars, ratVars, batchVars,
                   enumVars, prefVars>>

\* on_analysis_closed: 'analysis-closed' is received.
on_analysis_closed ==
    /\ lpc = "selecting"
    /\ n_started > n_closed
    /\ n_closed' = n_closed + 1
    /\ window_shown' = TRUE
    /\ UNCHANGED <<lpc, selected, db_file, has_local_db, handler3, n_threads,
                   n_dialogs, n_begun, begun_analysis, pending_beginning,
                   n_started, n_signals, n_signal_continue, last_path,
                   last_saved, sigVars, distVars, grpVars, ratVars, batchVars,
                   enumVars, prefVars>>

\* on_quit: gtk.main_quit().
on_quit ==
    /\ lpc = "selecting"
    /\ window_shown
    /\ lpc' = "quit"
    /\ UNCHANGED <<selected, db_file, has_local_db, handler3, window_shown,
                   n_threads, n_dialogs, n_begun, begun_analysis,
                   pending_beginning, n_started, n_closed, n_signals,
                   n_signal_continue, last_path, last_saved,
                   sigVars, distVars, grpVars, ratVars, batchVars, enumVars,
                   prefVars>>

NextLaunch ==
    \/ Launch
    \/ \E a \in RadioAnalyses : on_toggled(a)
    \/ ContinueClicked
    \/ MakeLocalDBDone
    \/ on_analysis_started
    \/ AnalysisProgressDialogClosed
    \/ on_analysis_closed
    \/ on_quit

----------------------------------------------------------------------------
(* Claims about the window to select an analysis, checked under
   SpecLauncher *)

\* C25: whenever on_continue calls a Begin(), 'has-local-db' is true and the
\* analysis begun is the selected one; an on_continue that finds
\* 'has-local-db' false begins an analysis only through the answer Yes to
\* "Use saved data?", and otherwise only prepares the local database, the
\* analysis being begun by a later on_continue.
C25_BeginOnlyWithLocalDB ==
    [][n_begun' # n_begun =>
          /\ n_begun' = n_begun + 1
          /\ has_local_db'
          /\ begun_analysis' = selected
          /\ last_path' = "begin"
          /\ (~has_local_db => (last_saved' \/ n_signals' # n_signals))
      ]_vars

C25_Witness ==
    /\ n_begun = 1
    /\ last_saved
    /\ has_local_db
    /\ db_file = "saved"
    /\ n_threads = 0
    /\ begun_analysis = "relations"

\* C26: the handler of 'progress-dialog-closed' is disconnected the first
\* time 'beginning-analysis' is received and is never connected again;
\* after that no 'progress-dialog-closed' signal calls on_continue, and
\* further calls of destroy_handler_connections change nothing.
C26_HandlerDisconnectedOnce ==
    /\ [](n_started >= 1 => ~handler3)
    /\ [][(lpc # "start" /\ ~handler3) => ~handler3']_vars
    /\ [][n_started >= 1 => n_signal_continue' = n_signal_continue]_vars
    /\ [][(n_started >= 1 /\ n_started' # n_started) =>
             handler3' = handler3]_vars

C26_Witness ==
    /\ n_started = 2
    /\ ~handler3
    /\ n_signals = 2
    /\ n_signal_continue = 0

\* C28: at most one MakeLocalDB thread runs at any time, and at most one
\* progress dialog of it is open: Continue pressed again before
\* 'has-local-db' is set starts neither a second thread nor a second dialog.
C28_AtMostOneMakeLocalDB ==
    n_threads <= 1 /\ n_dialogs <= 1

----------------------------------------------------------------------------
Init ==
    /\ InitSig
    /\ InitDist
    /\ InitGrp
    /\ InitRat
    /\ InitBatch
    /\ InitEnum
    /\ InitPref
    /\ InitLaunch

SpecSignificance == Init /\ [][NextSig]_vars

SpecDistances == Init /\ [][NextDist]_vars

SpecGrouping == Init /\ [][NextGrp]_vars

SpecRatios == Init /\ [][NextRat]_vars

\* Either analysis: the records of one species are grouped by number of
\* positive spots, those of two species by ratios groups.
NextGroupers ==
    \/ rpc = "start" /\ NextGrp
    \/ gpc = "start" /\ NextRat

SpecGroupers == Init /\ [][NextGroupers]_vars

SpecBatch == Init /\ [][NextBatch]_vars

\* The processes are scheduled fairly: a free process takes a queued unit,
\* a process that executes a unit ends it, and the caller, which waits for
\* the results, goes on when they are there.
FairBatch ==
    /\ WF_vars(\E u \in Units : Dispatch(u))
    /\ \A u \in 1..MaxUnits : WF_vars(u \in Units /\ Finish(u))
    /\ WF_vars(Summarize)
    /\ WF_vars(EndCancelled)

SpecBatchFair == SpecBatch /\ FairBatch

SpecEnumeration == Init /\ [][NextEnum]_vars

SpecPreference == Init /\ [][NextPref]_vars

SpecLauncher == Init /\ [][NextLaunch]_vars

====
